---- MODULE Spec2Model ----
(***************************************************************************)
(* Task calendar client (static/js/app.js): session context, assignee     *)
(* directory, editor panel, calendar controller and the requests they     *)
(* exchange with the pages API.                                           *)
(*                                                                        *)
(* Two revisions of the editor are in the sources and both are modelled:  *)
(*   "rbac"  src/unnamed/part_000 (lines 1-592; lines 594-1203 repeat the *)
(*           same editor, calendar and gateway code)                      *)
(*   "mvp"   src/app/static/js/app.js                                     *)
(* savePage, deletePage, closeEditor, updateEventDate and the calendar    *)
(* configuration are textually the same in both; openEditor and           *)
(* loadUsersForDropdown differ.                                           *)
(*                                                                        *)
(* The dashboard (initDashboard, updateTaskStatus) lives on a page of its *)
(* own and has three revisions: part_000 lines 57-204 ("rbac"), part_000  *)
(* lines 657-790 ("rbac0") and app.js lines 18-84 ("mvp").  Spec and its  *)
(* variants describe the calendar page, SpecDash the dashboard page.      *)
(*                                                                        *)
(* The client is single threaded: a handler runs from its entry to its    *)
(* first await (or to its end) as one step, and the code after an await   *)
(* runs as one step when the response is delivered.  The server is an     *)
(* external collaborator: it answers a request with success, with a       *)
(* non-success status, or the request fails in transport.                 *)
(***************************************************************************)
EXTENDS Integers, FiniteSets, Sequences, Bags, TLC

\* ------------------------------------------------------------------ bounds
MaxUser == 2
MaxPages == 3
MaxTime == 1
MaxGestures == 3
ShortGestures == 2
LongGestures == 4
MaxInFlight == 2

\* ------------------------------------------------------------- value space
\* JavaScript null for numbers (ids, instants) and for strings.
Null == -1
NullStr == "<null>"

Revisions == {"rbac", "mvp"}
KnownRoles == {"admin", "manager", "member"}
\* "" is the role of a session whose bootstrap left the role unset.
Roles == KnownRoles \cup {""}
Users == 1..MaxUser
\* ids the signed-in user is drawn from
Viewers == {1}
PageIds == 1..MaxPages
Times == 0..MaxTime

Titles == {"", "T"}
Contents == {"", "<p>c</p>"}
Categories == {"feature", "bug"}
Priorities == {"medium", "high"}
Statuses == {"todo", "done"}

Fields == {"title", "content", "category", "priority", "status", "assignee"}

\* Revisions of the dashboard: "rbac" is part_000 lines 57-204 (chart register),
\* "rbac0" is part_000 lines 657-790 (one branch per role, no register),
\* "mvp" is app.js lines 18-84 (no roles).
DashRevisions == {"rbac", "rbac0", "mvp"}
ChartIds == {"memberChart", "teamStatusChart", "workloadChart",
             "adminPageChart", "adminCatChart", "pagesChart", "categoryChart"}
TeamChartIds == {"teamStatusChart", "workloadChart"}
\* "stats" stands for the three counter elements stat-todo, stat-inprogress,
\* stat-done.
DomIds == ChartIds \cup {"stats"}
\* Chart.js 2 puts a second widget on a canvas that already holds one;
\* Chart.js 3 and later throw "Canvas is already in use".
ChartLibs == {"overlay", "throws"}
NoCharts == [id \in ChartIds |-> [created |-> 0, updated |-> 0, renders |-> 0]]

\* Team of each user in the directory the server returns for GET /api/users.
TeamOf(u) == u

\* JavaScript truthiness of a string / of a number.
TruthyStr(s) == s # "" /\ s # NullStr
TruthyNum(n) == n # Null /\ n # 0
\* a || b
OrStr(a, b) == IF TruthyStr(a) THEN a ELSE b
OrNum(a, b) == IF TruthyNum(a) THEN a ELSE b

\* ------------------------------------------------------------------- state
VARIABLES
    revision,          \* which revision of the client is loaded
    currentUserRole,   \* window.currentUserRole
    currentUserId,     \* window.currentUserId
    currentTeamId,     \* window.currentTeamId
    overlayOpen,       \* editorOverlay shown (translate-x-full removed)
    currentEventId,    \* module variable currentEventId
    tempDates,         \* window.tempDates
    w,                 \* values of the six field widgets
    dis,               \* disabled flag of the six field widgets
    saveBtn,           \* saveBtn.style.display
    deleteBtn,         \* deleteBtn.style.display
    assigneeOptions,   \* user options of the pageAssignee select
    events,            \* event set of the calendar widget
    pages,             \* page records held by the server
    inflight,          \* requests awaiting their response (a bag)
    closeTimers,       \* pending setTimeout(closeEditor, 500)
    hideTimers,        \* pending setTimeout(hide saveStatus, 2000)
    saveStatusShown,   \* saveStatus element visible
    alert,             \* message of the alert raised by the last step
    lastOp,            \* the handler that ran in the last step
    edited,            \* fields the user changed since the panel was opened
    gesturesLeft,      \* user gestures the session still makes
    domIds,            \* dashboard elements the page holds (getElementById finds)
    chartLib,          \* what new Chart does on a canvas that holds a chart
    dashboardCharts,   \* ids registered in window.dashboardCharts
    charts,            \* per chart id: widgets created, in-place updates, renders
    counters,          \* the stat-todo / stat-inprogress / stat-done counters are set
    panelEvent,        \* the event openEditor was last called on (Null: a new event)
    panelPosts,        \* the creates savePage has sent since the panel was opened
    panelCreated       \* one of them has been answered with success

sessionVars == <<revision, currentUserRole, currentUserId, currentTeamId>>
widgetVars == <<w, dis, saveBtn, deleteBtn>>
editorVars == <<overlayOpen, currentEventId, panelEvent, tempDates, w, dis, saveBtn, deleteBtn,
                edited>>
timerVars == <<closeTimers, hideTimers, saveStatusShown>>
createVars == <<panelPosts, panelCreated>>
dashVars == <<domIds, chartLib, dashboardCharts, charts, counters>>
vars == <<revision, currentUserRole, currentUserId, currentTeamId,
          overlayOpen, currentEventId, panelEvent, tempDates, w, dis, saveBtn, deleteBtn,
          assigneeOptions, events, pages, inflight,
          closeTimers, hideTimers, saveStatusShown, alert, lastOp, edited,
          gesturesLeft, domIds, chartLib, dashboardCharts, charts, counters,
          panelEvent, panelPosts, panelCreated>>

\* --------------------------------------------------------------- requests
NoPayload == [title |-> NullStr, content |-> NullStr, category |-> NullStr,
              priority |-> NullStr, status |-> NullStr, assignee_id |-> Null,
              start_time |-> Null, end_time |-> Null]

\* origin: the handler awaiting the response; id: page of the URL (Null for
\* collection URLs); pre: the displayed start/end before the gesture (the
\* calendar keeps them in the gesture's info object).
Request(origin, method, id, payload, pre) ==
    [origin |-> origin, method |-> method, id |-> id,
     payload |-> payload, pre |-> pre]
NoPre == [start |-> Null, end |-> Null]

Send(r) == inflight (+) SetToBag({r})
Receive(r) == inflight (-) SetToBag({r})
CanSend == BagCardinality(inflight) < MaxInFlight
CanGesture == gesturesLeft > 0

\* ----------------------------------------------------------------- server
InitialPage(i) ==
    [title |-> "T", content |-> "", category |-> "feature",
     priority |-> "medium", status |-> "todo",
     assignee_id |-> IF i \in Users THEN i ELSE Null, author_id |-> 1,
     start_time |-> 0, end_time |-> Null]

\* PUT of a full page payload: every payload field replaces the stored one,
\* author_id is kept.
ServerUpdate(page, payload) ==
    [title |-> payload.title, content |-> payload.content,
     category |-> payload.category, priority |-> payload.priority,
     status |-> payload.status, assignee_id |-> payload.assignee_id,
     author_id |-> page.author_id,
     start_time |-> payload.start_time, end_time |-> payload.end_time]

\* POST: the author is the signed-in user.
ServerCreate(payload, author) ==
    ServerUpdate([author_id |-> author], payload)

FreshIds == PageIds \ DOMAIN pages

\* A page stored with a title and times only (created through the API by a
\* client that sent nothing else): the other fields are null.
LegacyPage ==
    [title |-> "T", content |-> NullStr, category |-> NullStr,
     priority |-> NullStr, status |-> NullStr,
     assignee_id |-> Null, author_id |-> 1,
     start_time |-> 0, end_time |-> Null]

\* -------------------------------------------------------------- calendar
\* Mutant: the priority of the record is dropped, every event gets 'medium'.
eventDataTransform_NoPriority(id, eventData) ==
    [id |-> id,
     title |-> eventData.title,
     start |-> eventData.start_time,
     end |-> IF eventData.end_time # Null THEN eventData.end_time
             ELSE eventData.start_time,
     content |-> eventData.content,
     category |-> eventData.category,
     status |-> eventData.status,
     author_id |-> eventData.author_id,
     assignee_id |-> eventData.assignee_id,
     priority |-> "medium"]

\* eventDataTransform: one page record of the feed -> one calendar event.
eventDataTransform(id, eventData) ==
    [id |-> id,
     title |-> eventData.title,
     start |-> eventData.start_time,
     end |-> IF eventData.end_time # Null THEN eventData.end_time
             ELSE eventData.start_time,
     content |-> eventData.content,
     category |-> eventData.category,
     status |-> eventData.status,
     author_id |-> eventData.author_id,
     assignee_id |-> eventData.assignee_id,
     priority |-> OrStr(eventData.priority, "medium")]

\* ------------------------------------------------------ assignee directory
\* value setter of the pageAssignee select: a value that matches no option
\* leaves the select without selection, and its value then reads "".
SelectAssignee(options, v) == IF v \in options THEN v ELSE Null

\* loadUsersForDropdown, the filter of the forEach body.
shouldShowRbac(u) ==
    LET shouldShow ==
          IF currentUserRole = "manager"
          THEN IF TruthyNum(currentTeamId) THEN TeamOf(u) = currentTeamId ELSE TRUE
          ELSE IF currentUserRole = "member" THEN u = currentUserId
          ELSE TRUE
    IN shouldShow \/ currentUserRole = "admin"

shouldShowMvp(u) == TRUE

loadUsersForDropdown ==
    {u \in Users : IF revision = "rbac" THEN shouldShowRbac(u) ELSE shouldShowMvp(u)}

\* ----------------------------------------------------------- editor panel
\* value setter of a text input: null shows as the empty string.
InputValue(s) == IF s = NullStr THEN "" ELSE s

AllEnabled == [f \in Fields |-> FALSE]

\* Mutant: the status widget of a member is enabled when the event is NOT
\* assigned to them (condition inverted).
existingDisabledRbac_StatusInverted(isMember, isAssignedToMe) ==
    IF isMember
    THEN [f \in Fields |-> IF f = "status" THEN isAssignedToMe ELSE TRUE]
    ELSE AllEnabled

\* openEditor of the "rbac" revision, existing event: the disabled flags
\* the RBAC branch leaves on the six field widgets.
existingDisabledRbac(isMember, isAssignedToMe) ==
    IF isMember
    THEN [f \in Fields |-> IF f = "status" THEN ~isAssignedToMe ELSE TRUE]
    ELSE AllEnabled

\* ... the display of the save button
existingSaveBtnRbac(isMember, isAssignedToMe) ==
    IF isMember /\ ~isAssignedToMe THEN "none" ELSE "block"

\* Mutant: delete offered to admin only.
existingDeleteBtnRbac_AdminOnly(isMember) ==
    IF currentUserRole = "admin" THEN "inline-block" ELSE "none"

\* ... the display of the delete button
existingDeleteBtnRbac(isMember) ==
    IF isMember THEN "none" ELSE "inline-block"

\* openEditor of the "rbac" revision, new event: the disabled flags
newDisabledRbac(isMember) ==
    [f \in Fields |-> f = "assignee" /\ isMember]

\* ... the value of the assignee select
newAssigneeRbac(isMember) ==
    IF isMember THEN SelectAssignee(assigneeOptions, currentUserId) ELSE Null

\* Mutant: the reset of the delete button is missing, the button keeps the
\* display the previous panel left.
newDeleteBtnRbac_NoReset(before) == before

\* ... the display of the delete button: the reset at the top of openEditor,
\* which the new-event branch does not touch again
newDeleteBtnRbac(before) == "none"

\* openEditor of the "rbac" revision.  The result is the state of the panel
\* when the function returns.
openEditorRbac(data, isExisting) ==
    IF isExisting
    THEN LET isMember == currentUserRole = "member"
             isAssignedToMe == data.assignee_id = currentUserId
         IN [currentEventId |-> data.id,
             tempDates |-> tempDates,
             w |-> [title |-> InputValue(data.title),
                    content |-> OrStr(data.content, ""),
                    category |-> OrStr(data.category, "feature"),
                    priority |-> OrStr(data.priority, "medium"),
                    status |-> OrStr(data.status, "todo"),
                    assignee |-> SelectAssignee(assigneeOptions,
                                                OrNum(data.assignee_id, Null))],
             dis |-> existingDisabledRbac(isMember, isAssignedToMe),
             saveBtn |-> existingSaveBtnRbac(isMember, isAssignedToMe),
             deleteBtn |-> existingDeleteBtnRbac(isMember)]
    ELSE LET isMember == currentUserRole = "member"
         IN [currentEventId |-> Null,
             tempDates |-> [start |-> data.start, end |-> data.end],
             w |-> [title |-> "", content |-> "", category |-> "feature",
                    priority |-> "medium", status |-> "todo",
                    assignee |-> newAssigneeRbac(isMember)],
             dis |-> newDisabledRbac(isMember),
             saveBtn |-> "block",
             deleteBtn |-> newDeleteBtnRbac(deleteBtn)]

\* openEditor of the "mvp" revision.
openEditorMvp(data, isExisting) ==
    LET isMember == currentUserRole = "member"
        canDelete == currentUserRole = "admin" \/ currentUserRole = "manager"
    IN [currentEventId |-> IF isExisting THEN data.id ELSE Null,
        tempDates |-> IF isExisting THEN tempDates
                      ELSE [start |-> data.start, end |-> data.end],
        w |-> IF isExisting
              THEN [title |-> InputValue(data.title),
                    content |-> OrStr(data.content, ""),
                    category |-> data.category,
                    priority |-> OrStr(data.priority, "medium"),
                    status |-> OrStr(data.status, "todo"),
                    assignee |-> SelectAssignee(assigneeOptions,
                                                OrNum(data.assignee_id, Null))]
              ELSE [w EXCEPT !.title = "", !.priority = "medium",
                             !.assignee = Null, !.status = "todo",
                             !.content = ""],
        dis |-> IF isMember
                THEN IF isExisting
                     THEN [f \in Fields |-> f # "status"]
                     ELSE [dis EXCEPT !.content = FALSE, !.title = FALSE]
                ELSE AllEnabled,
        saveBtn |-> "block",
        deleteBtn |-> IF isExisting /\ canDelete THEN "inline-block" ELSE "none"]

openEditor(data, isExisting) ==
    IF revision = "rbac" THEN openEditorRbac(data, isExisting)
    ELSE openEditorMvp(data, isExisting)

\* The panel after openEditor(data, isExisting) has run.
OpenPanel(data, isExisting) ==
    LET p == openEditor(data, isExisting)
    IN /\ overlayOpen' = TRUE
       /\ currentEventId' = p.currentEventId
       /\ tempDates' = p.tempDates
       /\ w' = p.w
       /\ dis' = p.dis
       /\ saveBtn' = p.saveBtn
       /\ deleteBtn' = p.deleteBtn
       /\ edited' = {}
       /\ panelEvent' = IF isExisting THEN data.id ELSE Null
       /\ panelPosts' = {}
       /\ panelCreated' = FALSE

\* closeEditor
closeEditor == overlayOpen' = FALSE

\* Mutant: the branch closes the panel.
remainOpen_Closes == overlayOpen' = FALSE

\* The else and catch branches of savePage and deletePage raise an alert and
\* call nothing else: the overlay stays as it is.
remainOpen == overlayOpen' = overlayOpen

\* ------------------------------------------------------------------ Init
\* The page after initCalendar, with g gestures of the user to come and the
\* server holding the pages ps.
InitWithPages(g, ps) ==
    /\ revision \in Revisions
    /\ currentUserRole \in Roles
    /\ currentUserId \in Viewers
    \* only a manager's team id is read (loadUsersForDropdown)
    /\ currentTeamId \in IF currentUserRole = "manager"
                         THEN {Null, TeamOf(currentUserId)}
                         ELSE {TeamOf(currentUserId)}
    /\ overlayOpen = FALSE
    /\ currentEventId = Null
    /\ panelEvent = Null
    /\ panelPosts = {}
    /\ panelCreated = FALSE
    /\ tempDates = [start |-> Null, end |-> Null]
    /\ w = [title |-> "", content |-> "", category |-> "feature",
            priority |-> "medium", status |-> "todo", assignee |-> Null]
    /\ dis = AllEnabled
    /\ saveBtn = "block"
    /\ deleteBtn = "none"
    /\ assigneeOptions = {}
    /\ events = << >>
    /\ pages = ps
    \* initCalendar: loadUsersForDropdown() and the calendar's first fetch of
    \* its event source are issued at page load.
    /\ inflight = SetToBag({Request("loadUsers", "GET", Null, NoPayload, NoPre),
                            Request("feed", "GET", Null, NoPayload, NoPre)})
    /\ closeTimers = 0
    /\ hideTimers = 0
    /\ saveStatusShown = FALSE
    /\ alert = ""
    /\ lastOp = "initCalendar"
    /\ edited = {}
    /\ gesturesLeft = g
    \* the calendar page holds no dashboard element and builds no chart
    /\ domIds = {}
    /\ chartLib = "throws"
    /\ dashboardCharts = {}
    /\ charts = NoCharts
    /\ counters = FALSE

InitWith(g) == InitWithPages(g, [i \in 1..2 |-> InitialPage(i)])

Init == InitWith(MaxGestures)

\* ------------------------------------------------- calendar gesture: select
\* select: function (info) { openEditor({start, end}) }
Select(s) ==
    /\ CanGesture
    /\ OpenPanel([start |-> s, end |-> s + 1], FALSE)
    /\ alert' = ""
    /\ lastOp' = "select"
    /\ gesturesLeft' = gesturesLeft - 1
    /\ UNCHANGED <<sessionVars, dashVars, assigneeOptions, events, pages, inflight, timerVars>>

\* eventClick: function (info) { openEditor(info.event, true) }
EventClick(id) ==
    /\ CanGesture
    /\ id \in DOMAIN events
    /\ OpenPanel(events[id], TRUE)
    /\ alert' = ""
    /\ lastOp' = "eventClick"
    /\ gesturesLeft' = gesturesLeft - 1
    /\ UNCHANGED <<sessionVars, dashVars, assigneeOptions, events, pages, inflight, timerVars>>

\* click on #closeEditor
CloseClick ==
    /\ CanGesture
    /\ overlayOpen
    /\ closeEditor
    /\ alert' = ""
    /\ lastOp' = "closeEditor"
    /\ gesturesLeft' = gesturesLeft - 1
    /\ UNCHANGED <<sessionVars, dashVars, createVars, currentEventId, panelEvent, tempDates, widgetVars, edited,
                   assigneeOptions, events, pages, inflight, timerVars>>

\* ------------------------------------------------------ field widget input
FieldValues(f) ==
    CASE f = "title" -> Titles
      [] f = "content" -> Contents
      [] f = "category" -> Categories
      [] f = "priority" -> Priorities
      [] f = "status" -> Statuses
      [] f = "assignee" -> assigneeOptions \cup {Null}

\* The user changes the value of an enabled field widget of the open panel.
EditField(f, v) ==
    /\ CanGesture
    /\ overlayOpen
    /\ ~dis[f]
    /\ v # w[f]
    /\ w' = [w EXCEPT ![f] = v]
    /\ edited' = edited \cup {f}
    /\ alert' = ""
    /\ lastOp' = "input"
    /\ gesturesLeft' = gesturesLeft - 1
    /\ UNCHANGED <<sessionVars, dashVars, createVars, overlayOpen, currentEventId, panelEvent, tempDates, dis,
                   saveBtn, deleteBtn, assigneeOptions, events, pages,
                   inflight, timerVars>>

\* The user makes the locked assignee widget hold another value (through the
\* browser's developer tools; not a gesture on the page).
TamperAssignee(v) ==
    /\ overlayOpen
    /\ dis.assignee
    /\ v # w.assignee
    /\ w' = [w EXCEPT !.assignee = v]
    /\ edited' = edited \cup {"assignee"}
    /\ alert' = ""
    /\ lastOp' = "tamper"
    /\ UNCHANGED <<sessionVars, dashVars, createVars, overlayOpen, currentEventId, panelEvent, tempDates, dis,
                   saveBtn, deleteBtn, assigneeOptions, events, pages,
                   inflight, timerVars, gesturesLeft>>

\* ---------------------------------------------------------------- savePage
\* The payload savePage builds from the widgets (start/end added by caller).
savePayload ==
    [title |-> w.title, content |-> w.content, category |-> w.category,
     priority |-> w.priority,
     \* value ? parseInt(value) : null -- the value is "" or an option's id
     assignee_id |-> IF w.assignee # Null THEN w.assignee ELSE Null,
     status |-> w.status,
     start_time |-> Null, end_time |-> Null]

\* Mutant: no event id counts as set.
TruthyId_Never(id) == FALSE

\* currentEventId holds the calendar's event id, a string: it is falsy only
\* when it is null.
TruthyId(id) == id # Null

\* Mutant: the update of an existing event takes the pending dates of the
\* last selection instead of the calendar event's.
saveRequest_PendingDates ==
    IF TruthyId(currentEventId)
    THEN Request("savePage", "PUT", currentEventId,
                 [savePayload EXCEPT !.start_time = tempDates.start,
                                     !.end_time = tempDates.end],
                 NoPre)
    ELSE Request("savePage", "POST", Null,
                 [savePayload EXCEPT !.start_time = tempDates.start,
                                     !.end_time = tempDates.end],
                 NoPre)

\* The request savePage issues.  Only called when the title is not empty and,
\* for an existing event, when the calendar still holds the event.
saveRequest ==
    IF TruthyId(currentEventId)
    THEN Request("savePage", "PUT", currentEventId,
                 [savePayload EXCEPT !.start_time = events[currentEventId].start,
                                     !.end_time = events[currentEventId].end],
                 NoPre)
    ELSE Request("savePage", "POST", Null,
                 [savePayload EXCEPT !.start_time = tempDates.start,
                                     !.end_time = tempDates.end],
                 NoPre)

\* Mutant: only a null title is refused (title === null).
titleMissing_NullOnly(title) == title = NullStr

\* if (!title)
titleMissing(title) == ~TruthyStr(title)

\* Mutant: the save button does nothing while a save is awaiting its
\* response.
SaveClick_OneAtATime ==
    /\ \A r \in BagToSet(inflight) : r.origin # "savePage"
    /\ CanGesture
    /\ overlayOpen
    /\ saveBtn = "block"
    /\ gesturesLeft' = gesturesLeft - 1
    /\ IF titleMissing(w.title)
       THEN \* alert("Title Required"); return
            /\ alert' = "Title Required"
            /\ lastOp' = "savePage:noTitle"
            /\ UNCHANGED <<inflight, panelPosts>>
       ELSE IF TruthyId(currentEventId) /\ currentEventId \notin DOMAIN events
       THEN \* calendar.getEventById returns null: eventObj.start throws
            \* before the try block
            /\ alert' = ""
            /\ lastOp' = "savePage:throw"
            /\ UNCHANGED <<inflight, panelPosts>>
       ELSE /\ CanSend
            /\ inflight' = Send(saveRequest)
            /\ panelPosts' = IF saveRequest.method = "POST"
                             THEN panelPosts \cup {saveRequest} ELSE panelPosts
            /\ alert' = ""
            /\ lastOp' = "savePage:fetch"
    /\ UNCHANGED <<sessionVars, dashVars, panelCreated, editorVars, assigneeOptions,
                   events, pages, timerVars>>

\* click on #saveBtn: savePage up to its await.
SaveClick ==
    /\ CanGesture
    /\ overlayOpen
    /\ saveBtn = "block"
    /\ gesturesLeft' = gesturesLeft - 1
    /\ IF titleMissing(w.title)
       THEN \* alert("Title Required"); return
            /\ alert' = "Title Required"
            /\ lastOp' = "savePage:noTitle"
            /\ UNCHANGED <<inflight, panelPosts>>
       ELSE IF TruthyId(currentEventId) /\ currentEventId \notin DOMAIN events
       THEN \* calendar.getEventById returns null: eventObj.start throws
            \* before the try block
            /\ alert' = ""
            /\ lastOp' = "savePage:throw"
            /\ UNCHANGED <<inflight, panelPosts>>
       ELSE /\ CanSend
            /\ inflight' = Send(saveRequest)
            /\ panelPosts' = IF saveRequest.method = "POST"
                             THEN panelPosts \cup {saveRequest} ELSE panelPosts
            /\ alert' = ""
            /\ lastOp' = "savePage:fetch"
    /\ UNCHANGED <<sessionVars, dashVars, panelCreated, editorVars, assigneeOptions,
                   events, pages, timerVars>>

Outcomes == {"ok", "rejected", "failed"}

\* What the server holds after it accepted request r.
ServerApply(r, newId) ==
    CASE r.method = "PUT" ->
           IF r.id \in DOMAIN pages
           THEN [pages EXCEPT ![r.id] = ServerUpdate(pages[r.id], r.payload)]
           ELSE pages
      [] r.method = "POST" ->
           [i \in DOMAIN pages \cup {newId} |->
              IF i = newId THEN ServerCreate(r.payload, currentUserId) ELSE pages[i]]
      [] r.method = "DELETE" ->
           [i \in DOMAIN pages \ {r.id} |-> pages[i]]
      [] OTHER -> pages

FeedRequest == Request("feed", "GET", Null, NoPayload, NoPre)

\* savePage after its await.
SaveResponse(r, outcome) ==
    /\ r \in BagToSet(inflight)
    /\ r.origin = "savePage"
    /\ \/ /\ outcome = "ok"
          /\ \/ /\ r.method = "PUT"
                /\ r.id \in DOMAIN pages
                /\ pages' = ServerApply(r, Null)
             \/ /\ r.method = "POST"
                /\ \E newId \in FreshIds :
                     /\ \A j \in FreshIds : newId <= j
                     /\ pages' = ServerApply(r, newId)
          \* calendar.refetchEvents(); showSaveStatus(); setTimeout(closeEditor, 500)
          /\ inflight' = Receive(r) (+) SetToBag({FeedRequest})
          /\ saveStatusShown' = TRUE
          /\ hideTimers' = hideTimers + 1
          /\ closeTimers' = closeTimers + 1
          /\ alert' = ""
          /\ lastOp' = "savePage:ok"
          /\ panelCreated' = (panelCreated \/ (r.method = "POST" /\ r \in panelPosts))
          /\ UNCHANGED overlayOpen
       \/ /\ outcome = "rejected"
          /\ inflight' = Receive(r)
          /\ alert' = "Error: detail"
          /\ lastOp' = "savePage:rejected"
          /\ remainOpen
          /\ UNCHANGED <<pages, timerVars, panelCreated>>
       \/ /\ outcome = "failed"
          /\ inflight' = Receive(r)
          /\ alert' = "Erreur reseau"
          /\ lastOp' = "savePage:failed"
          /\ remainOpen
          /\ UNCHANGED <<pages, timerVars, panelCreated>>
    /\ UNCHANGED <<sessionVars, dashVars, panelPosts, currentEventId, panelEvent,
                   tempDates, widgetVars, edited, assigneeOptions, events,
                   gesturesLeft>>

\* Mutant: the timer fires without closing the panel.
CloseTimer_NoClose ==
    /\ closeTimers > 0
    /\ closeTimers' = closeTimers - 1
    /\ remainOpen
    /\ alert' = ""
    /\ lastOp' = "timer:closeEditor"
    /\ UNCHANGED <<sessionVars, dashVars, createVars, currentEventId, panelEvent, tempDates, widgetVars, edited,
                   assigneeOptions, events, pages, inflight, hideTimers,
                   saveStatusShown, gesturesLeft>>

\* setTimeout(closeEditor, 500) fires.
CloseTimer ==
    /\ closeTimers > 0
    /\ closeTimers' = closeTimers - 1
    /\ closeEditor
    /\ alert' = ""
    /\ lastOp' = "timer:closeEditor"
    /\ UNCHANGED <<sessionVars, dashVars, createVars, currentEventId, panelEvent, tempDates, widgetVars, edited,
                   assigneeOptions, events, pages, inflight, hideTimers,
                   saveStatusShown, gesturesLeft>>

\* showSaveStatus: setTimeout(() => el.classList.add('hidden'), 2000) fires.
\* It was set together with a 500 ms close timer, which fires first.
HideTimer ==
    /\ hideTimers > closeTimers
    /\ hideTimers' = hideTimers - 1
    /\ saveStatusShown' = FALSE
    /\ alert' = ""
    /\ lastOp' = "timer:hideSaveStatus"
    /\ UNCHANGED <<sessionVars, dashVars, createVars, editorVars, assigneeOptions, events, pages,
                   inflight, closeTimers, gesturesLeft>>

\* -------------------------------------------------------------- deletePage
\* Mutant: the confirmation dialog is not consulted.
deleteReturns_NoConfirm(confirmed) == ~TruthyId(currentEventId)

\* if (!currentEventId || !confirm("Confirm Deletion?")) return;
deleteReturns(confirmed) == ~TruthyId(currentEventId) \/ ~confirmed

\* click on #deleteBtn: deletePage up to its await.  confirmed is the answer
\* the user gives to the dialog, which is shown only for an event id; lastOp
\* records the case the handler was called in.
DeleteClick(confirmed) ==
    /\ CanGesture
    /\ overlayOpen
    /\ deleteBtn = "inline-block"
    /\ gesturesLeft' = gesturesLeft - 1
    /\ alert' = ""
    /\ lastOp' = IF ~TruthyId(currentEventId) THEN "deletePage:noEvent"
                 ELSE IF confirmed THEN "deletePage:confirmed"
                 ELSE "deletePage:declined"
    /\ IF deleteReturns(confirmed)
       THEN UNCHANGED inflight
       ELSE /\ CanSend
            /\ inflight' = Send(Request("deletePage", "DELETE", currentEventId,
                                        NoPayload, NoPre))
    /\ UNCHANGED <<sessionVars, dashVars, createVars, editorVars, assigneeOptions, events, pages, timerVars>>

\* deletePage after its await.  The success branch reads the module variable
\* currentEventId again; getEventById(...) returns null for an id the calendar
\* does not hold, and .remove() on it throws into the catch.
DeleteResponse(r, outcome) ==
    /\ r \in BagToSet(inflight)
    /\ r.origin = "deletePage"
    /\ inflight' = Receive(r)
    /\ \/ /\ outcome = "ok"
          /\ pages' = ServerApply(r, Null)
          /\ IF currentEventId \in DOMAIN events
             THEN /\ events' = [i \in DOMAIN events \ {currentEventId} |-> events[i]]
                  /\ closeEditor
                  /\ alert' = ""
                  /\ lastOp' = "deletePage:ok"
             ELSE /\ alert' = "Erreur reseau"
                  /\ lastOp' = "deletePage:throw"
                  /\ remainOpen
                  /\ UNCHANGED events
       \/ /\ outcome = "rejected"
          /\ alert' = "Impossible de supprimer."
          /\ lastOp' = "deletePage:rejected"
          /\ remainOpen
          /\ UNCHANGED <<pages, events>>
       \/ /\ outcome = "failed"
          /\ alert' = "Erreur reseau"
          /\ lastOp' = "deletePage:failed"
          /\ remainOpen
          /\ UNCHANGED <<pages, events>>
    /\ UNCHANGED <<sessionVars, dashVars, createVars, currentEventId, panelEvent, tempDates, widgetVars, edited,
                   assigneeOptions, timerVars, gesturesLeft>>

\* ---------------------------------------------------------- updateEventDate
\* The payload updateEventDate builds from the calendar event.
updateEventDatePayload(event) ==
    [title |-> event.title,
     content |-> OrStr(event.content, ""),
     start_time |-> event.start,
     end_time |-> event.end,
     category |-> OrStr(event.category, "personal"),
     status |-> OrStr(event.status, "draft"),
     priority |-> OrStr(event.priority, "medium"),
     assignee_id |-> event.assignee_id]

\* The calendar has moved the event; updateEventDate runs up to its await.
updateEventDate(id, moved) ==
    /\ CanSend
    /\ events' = [events EXCEPT ![id] = moved]
    /\ inflight' = Send(Request("updateEventDate", "PUT", id,
                                updateEventDatePayload(moved),
                                [start |-> events[id].start, end |-> events[id].end]))
    /\ alert' = ""
    /\ gesturesLeft' = gesturesLeft - 1
    /\ UNCHANGED <<sessionVars, dashVars, createVars, editorVars, assigneeOptions, pages, timerVars>>

\* eventDrop: the user drags the event to start at t; its end moves along.
EventDrop(id, t) ==
    /\ CanGesture
    /\ id \in DOMAIN events
    /\ t # events[id].start
    /\ updateEventDate(id, [events[id] EXCEPT
                              !.start = t,
                              !.end = events[id].end + (t - events[id].start)])
    /\ lastOp' = "eventDrop"

\* eventResize: the user drags the end of the event to t.
EventResize(id, t) ==
    /\ CanGesture
    /\ id \in DOMAIN events
    /\ t > events[id].start
    /\ t # events[id].end
    /\ updateEventDate(id, [events[id] EXCEPT !.end = t])
    /\ lastOp' = "eventResize"

\* Members of the event object (FullCalendar EventApi) that eventDrop and
\* eventResize hand to updateEventDate as info.event.  The calendar offers
\* the undo of a gesture as info.revert, which the two callbacks do not
\* forward; the event object itself has no revert.
EventApiMembers == {"id", "title", "start", "end", "extendedProps", "remove"}

\* event.revert() inside the try block of updateEventDate: the displayed
\* start/end after the call.  Calling a missing member throws into the catch,
\* which logs and leaves the event where the gesture put it.
eventRevert(event, pre) ==
    IF "revert" \in EventApiMembers
    THEN [event EXCEPT !.start = pre.start, !.end = pre.end]
    ELSE event

\* updateEventDate after its await.
UpdateEventDateResponse(r, outcome) ==
    /\ r \in BagToSet(inflight)
    /\ r.origin = "updateEventDate"
    /\ inflight' = Receive(r)
    /\ \/ /\ outcome = "ok"
          /\ r.id \in DOMAIN pages
          /\ pages' = ServerApply(r, Null)
          /\ alert' = ""
          /\ lastOp' = "updateEventDate:ok"
          /\ UNCHANGED events
       \/ /\ outcome = "rejected"
          \* alert("Update failed."); event.revert();
          /\ alert' = "Update failed."
          /\ events' = IF r.id \in DOMAIN events
                       THEN [events EXCEPT ![r.id] = eventRevert(events[r.id], r.pre)]
                       ELSE events
          /\ lastOp' = "updateEventDate:rejected"
          /\ UNCHANGED pages
       \/ /\ outcome = "failed"
          \* catch (e) { console.error(e); }
          /\ alert' = ""
          /\ lastOp' = "updateEventDate:failed"
          /\ UNCHANGED <<pages, events>>
    /\ UNCHANGED <<sessionVars, dashVars, createVars, editorVars, assigneeOptions, timerVars, gesturesLeft>>

\* ------------------------------------------------------ responses of GETs
\* The calendar receives its event source: every record goes through
\* eventDataTransform and the result replaces the event set.  A failed fetch
\* leaves the event set as it is.
FeedResponse(outcome) ==
    /\ FeedRequest \in BagToSet(inflight)
    /\ inflight' = Receive(FeedRequest)
    /\ \/ /\ outcome = "ok"
          /\ events' = [i \in DOMAIN pages |-> eventDataTransform(i, pages[i])]
       \/ /\ outcome # "ok"
          /\ UNCHANGED events
    /\ alert' = ""
    /\ lastOp' = "feed"
    /\ UNCHANGED <<sessionVars, dashVars, createVars, editorVars, assigneeOptions, pages, timerVars, gesturesLeft>>

UsersRequest == Request("loadUsers", "GET", Null, NoPayload, NoPre)

\* loadUsersForDropdown after its await: the options are rebuilt (which
\* resets the selection to the first option, "-- Unassigned --"); a failure
\* is caught and logged.
UsersResponse(outcome) ==
    /\ UsersRequest \in BagToSet(inflight)
    /\ inflight' = Receive(UsersRequest)
    /\ \/ /\ outcome = "ok"
          /\ assigneeOptions' = loadUsersForDropdown
          /\ w' = [w EXCEPT !.assignee = Null]
       \/ /\ outcome # "ok"
          /\ UNCHANGED <<assigneeOptions, w>>
    /\ alert' = ""
    /\ lastOp' = "loadUsers"
    /\ UNCHANGED <<sessionVars, dashVars, createVars, overlayOpen, currentEventId, panelEvent, tempDates, dis,
                   saveBtn, deleteBtn, edited, events, pages, timerVars, gesturesLeft>>

\* ------------------------------------------------------------------- Next
Next ==
    \/ \E s \in Times : Select(s)
    \/ \E id \in PageIds : EventClick(id)
    \/ CloseClick
    \/ \E f \in Fields : \E v \in FieldValues(f) : EditField(f, v)
    \/ \E v \in Users \cup {Null} : TamperAssignee(v)
    \/ SaveClick
    \/ \E r \in BagToSet(inflight) : \E o \in Outcomes : SaveResponse(r, o)
    \/ CloseTimer
    \/ HideTimer
    \/ \E c \in BOOLEAN : DeleteClick(c)
    \/ \E r \in BagToSet(inflight) : \E o \in Outcomes : DeleteResponse(r, o)
    \/ \E id \in PageIds : \E t \in Times : EventDrop(id, t)
    \/ \E id \in PageIds : \E t \in 1..(MaxTime + 1) : EventResize(id, t)
    \/ \E r \in BagToSet(inflight) : \E o \in Outcomes : UpdateEventDateResponse(r, o)
    \/ \E o \in {"ok", "failed"} : FeedResponse(o)
    \/ \E o \in {"ok", "failed"} : UsersResponse(o)

Spec == Init /\ [][Next]_vars

\* The same page with a shorter session of the user.
InitShort == InitWith(ShortGestures)
SpecShort == InitShort /\ [][Next]_vars

\* A timer set with setTimeout fires: the browser runs the callback once the
\* delay has passed, whatever the user does.
SpecShortFair == InitShort /\ [][Next]_vars /\ WF_vars(CloseTimer)

\* A longer session on the calendar page of the current revision, for an
\* admin or a member, when the server holds one page.
InitLong ==
    /\ InitWithPages(LongGestures, [i \in 1..1 |-> InitialPage(i)])
    /\ revision = "rbac"
    /\ currentUserRole \in {"admin", "member"}
SpecLong == InitLong /\ [][Next]_vars

\* The same page when the server also holds a page with null fields.
InitLegacy ==
    InitWithPages(ShortGestures,
                  [i \in 1..2 |-> IF i = 2 THEN LegacyPage ELSE InitialPage(i)])
SpecLegacy == InitLegacy /\ [][Next]_vars

\* =============================================================== dashboard
\* GET /api/metrics answers {role, context}; the context of a manager who has
\* no team carries error.
MetricsHasError == currentUserRole = "manager" /\ ~TruthyNum(currentTeamId)

\* The elements the dashboard page holds for the viewer's role.
SectionIds(rev, role) ==
    IF rev = "mvp" THEN {"pagesChart", "categoryChart"}
    ELSE CASE role = "member" -> {"stats", "memberChart"}
           [] role = "manager" -> {"stats", "memberChart"} \cup TeamChartIds
           [] OTHER -> {"adminPageChart", "adminCatChart"}

\* The renders one run of initDashboard performs, in order.
RenderPlan(rev, role, hasError) ==
    CASE rev = "rbac" ->
           (IF role \in {"member", "manager"} THEN <<"stats", "memberChart">>
            ELSE << >>)
           \o (IF role = "manager" /\ ~hasError
               THEN <<"teamStatusChart", "workloadChart">> ELSE << >>)
           \o (IF role = "admin" THEN <<"adminPageChart", "adminCatChart">>
               ELSE << >>)
      [] rev = "rbac0" ->
           IF role = "member" THEN <<"stats", "memberChart">>
           ELSE IF role = "manager"
           THEN IF hasError THEN << >> ELSE <<"teamStatusChart", "workloadChart">>
           ELSE <<"adminPageChart", "adminCatChart">>
      [] OTHER -> <<"pagesChart", "categoryChart">>

\* The dashboard as one record, for the steps of a run.
DashState ==
    [reg |-> dashboardCharts, charts |-> charts, counters |-> counters,
     thrown |-> FALSE]

\* setSafe(id, val): writes the counter when the element exists.
setSafe(st) == [st EXCEPT !.counters = st.counters \/ "stats" \in domIds]

\* document.getElementById(id).innerText = val: throws when the element is
\* missing.
setCounters(st) ==
    IF "stats" \in domIds THEN [st EXCEPT !.counters = TRUE]
    ELSE [st EXCEPT !.thrown = TRUE]

\* updateOrCreate(id, type, chartData, options)
updateOrCreate(st, id) ==
    IF id \notin domIds THEN st
    ELSE IF id \in st.reg
    THEN [st EXCEPT !.charts[id].updated = @ + 1, !.charts[id].renders = @ + 1]
    ELSE [st EXCEPT !.charts[id].created = @ + 1, !.charts[id].renders = @ + 1,
                    !.reg = @ \cup {id}]

\* new Chart(document.getElementById(id).getContext('2d'), {...})
newChart(st, id) ==
    IF id \notin domIds THEN [st EXCEPT !.thrown = TRUE]
    ELSE IF st.charts[id].created > 0
    THEN IF chartLib = "overlay"
         THEN [st EXCEPT !.charts[id].created = @ + 1, !.charts[id].renders = @ + 1]
         ELSE [st EXCEPT !.charts[id].renders = @ + 1, !.thrown = TRUE]
    ELSE [st EXCEPT !.charts[id].created = @ + 1, !.charts[id].renders = @ + 1]

renderStep(rev, st, id) ==
    IF id = "stats"
    THEN IF rev = "rbac" THEN setSafe(st) ELSE setCounters(st)
    ELSE IF rev = "rbac" THEN updateOrCreate(st, id) ELSE newChart(st, id)

\* The body of the try block: a throw skips the rest of the run.
RECURSIVE runDashboard(_, _, _)
runDashboard(rev, st, plan) ==
    IF plan = << >> \/ st.thrown THEN st
    ELSE runDashboard(rev, renderStep(rev, st, Head(plan)), Tail(plan))

MetricsRequest == Request("initDashboard", "GET", Null, NoPayload, NoPre)

calendarVars == <<overlayOpen, currentEventId, panelEvent, tempDates, w, dis, saveBtn, deleteBtn,
                  edited, assigneeOptions, events, closeTimers, hideTimers,
                  saveStatusShown, panelPosts, panelCreated>>

\* The dashboard page after initDashboard() was called at load.
InitDash ==
    /\ revision \in DashRevisions
    /\ currentUserRole \in KnownRoles
    /\ currentUserId \in Viewers
    /\ currentTeamId \in IF currentUserRole = "manager"
                         THEN {Null, TeamOf(currentUserId)}
                         ELSE {TeamOf(currentUserId)}
    \* no calendar and no editor panel on this page
    /\ overlayOpen = FALSE
    /\ currentEventId = Null
    /\ panelEvent = Null
    /\ panelPosts = {}
    /\ panelCreated = FALSE
    /\ tempDates = [start |-> Null, end |-> Null]
    /\ w = [title |-> "", content |-> "", category |-> "feature",
            priority |-> "medium", status |-> "todo", assignee |-> Null]
    /\ dis = AllEnabled
    /\ saveBtn = "block"
    /\ deleteBtn = "none"
    /\ assigneeOptions = {}
    /\ events = << >>
    /\ closeTimers = 0
    /\ hideTimers = 0
    /\ saveStatusShown = FALSE
    /\ edited = {}
    /\ pages = [i \in 1..2 |-> InitialPage(i)]
    /\ inflight = SetToBag({MetricsRequest})
    /\ alert = ""
    /\ lastOp = "initDashboard"
    /\ gesturesLeft = ShortGestures
    /\ domIds \in {DomIds, SectionIds(revision, currentUserRole)}
    /\ chartLib \in ChartLibs
    /\ dashboardCharts = {}
    /\ charts = NoCharts
    /\ counters = FALSE

\* initDashboard after its await.  A failed fetch goes to the catch.
MetricsResponse(outcome) ==
    /\ MetricsRequest \in BagToSet(inflight)
    /\ inflight' = Receive(MetricsRequest)
    /\ \/ /\ outcome = "ok"
          /\ LET st == runDashboard(revision, DashState,
                                    RenderPlan(revision, currentUserRole,
                                               MetricsHasError))
             IN /\ dashboardCharts' = st.reg
                /\ charts' = st.charts
                /\ counters' = st.counters
                /\ lastOp' = IF st.thrown THEN "initDashboard:catch"
                             ELSE "initDashboard:done"
       \/ /\ outcome # "ok"
          /\ lastOp' = "initDashboard:fetchFailed"
          /\ UNCHANGED <<dashboardCharts, charts, counters>>
    /\ alert' = ""
    /\ UNCHANGED <<sessionVars, calendarVars, pages, gesturesLeft, domIds, chartLib>>

\* updateTaskStatus(pageId, newStatus) up to its first await.  The "mvp"
\* revision has no status control on the dashboard.
StatusClick(pageId, newStatus) ==
    /\ CanGesture
    /\ revision # "mvp"
    /\ CanSend
    /\ inflight' = Send(Request("updateTaskStatus:get", "GET", pageId,
                                [NoPayload EXCEPT !.status = newStatus], NoPre))
    /\ alert' = ""
    /\ lastOp' = "updateTaskStatus"
    /\ gesturesLeft' = gesturesLeft - 1
    /\ UNCHANGED <<sessionVars, dashVars, calendarVars, pages>>

\* Mutant: the payload does not carry the assignee.
updateTaskStatusPayload_NoAssignee(currentData, newStatus) ==
    [title |-> currentData.title, content |-> currentData.content,
     start_time |-> currentData.start_time, end_time |-> currentData.end_time,
     category |-> currentData.category, priority |-> currentData.priority,
     assignee_id |-> Null, status |-> newStatus]

\* The payload updateTaskStatus builds from the fetched page.
updateTaskStatusPayload(currentData, newStatus) ==
    [title |-> currentData.title, content |-> currentData.content,
     start_time |-> currentData.start_time, end_time |-> currentData.end_time,
     category |-> currentData.category, priority |-> currentData.priority,
     assignee_id |-> currentData.assignee_id, status |-> newStatus]

\* The JSON body of an error response: an object with none of the fields of
\* a page, so that every field read from it is undefined.
ErrorBody == NoPayload

\* updateTaskStatus after its first await.  getRes.ok is not tested: the body
\* of an error response is used as currentData when it parses as JSON, and
\* getRes.json() throws into the catch when it does not.
TaskGetResponse(r, outcome) ==
    /\ r \in BagToSet(inflight)
    /\ r.origin = "updateTaskStatus:get"
    /\ \/ /\ outcome \in {"ok", "rejected"}
          /\ r.id \in DOMAIN pages
          /\ LET currentData == IF outcome = "ok" THEN pages[r.id] ELSE ErrorBody
             IN inflight' = Receive(r) (+) SetToBag({
                    Request("updateTaskStatus:put", "PUT", r.id,
                            updateTaskStatusPayload(currentData, r.payload.status),
                            NoPre)})
          /\ alert' = ""
          /\ lastOp' = IF outcome = "ok" THEN "updateTaskStatus:put"
                       ELSE "updateTaskStatus:putNoRecord"
       \/ /\ outcome # "ok"
          /\ inflight' = Receive(r)
          /\ alert' = "Network error"
          /\ lastOp' = "updateTaskStatus:catch"
    /\ UNCHANGED <<sessionVars, dashVars, calendarVars, pages, gesturesLeft>>

\* updateTaskStatus after its second await: initDashboard() on success.
TaskPutResponse(r, outcome) ==
    /\ r \in BagToSet(inflight)
    /\ r.origin = "updateTaskStatus:put"
    /\ \/ /\ outcome = "ok"
          /\ pages' = ServerApply(r, Null)
          /\ inflight' = Receive(r) (+) SetToBag({MetricsRequest})
          /\ alert' = ""
          /\ lastOp' = "updateTaskStatus:ok"
       \/ /\ outcome = "rejected"
          /\ inflight' = Receive(r)
          /\ alert' = "Update failed."
          /\ lastOp' = "updateTaskStatus:rejected"
          /\ UNCHANGED pages
       \/ /\ outcome = "failed"
          /\ inflight' = Receive(r)
          /\ alert' = "Network error"
          /\ lastOp' = "updateTaskStatus:catch"
          /\ UNCHANGED pages
    /\ UNCHANGED <<sessionVars, dashVars, calendarVars, gesturesLeft>>

\* The calendar page of the same user, open in another tab, while the
\* dashboard is shown: the user drags the event of page id to start at t,
\* updateEventDate sends the moved event and the server accepts it.
CalendarTabDrop(id, t) ==
    /\ CanGesture
    /\ id \in DOMAIN pages
    /\ t # pages[id].start_time
    /\ LET event == eventDataTransform(id, pages[id])
           moved == [event EXCEPT !.start = t,
                                  !.end = event.end + (t - event.start)]
       IN pages' = ServerApply(Request("updateEventDate", "PUT", id,
                                       updateEventDatePayload(moved),
                                       [start |-> event.start, end |-> event.end]),
                               Null)
    /\ lastOp' = "calendarTab:eventDrop"
    /\ gesturesLeft' = gesturesLeft - 1
    /\ UNCHANGED <<sessionVars, dashVars, calendarVars, inflight, alert>>

NextDash ==
    \/ \E o \in {"ok", "failed"} : MetricsResponse(o)
    \/ \E id \in PageIds : \E st \in Statuses : StatusClick(id, st)
    \/ \E r \in BagToSet(inflight) : \E o \in Outcomes : TaskGetResponse(r, o)
    \/ \E r \in BagToSet(inflight) : \E o \in Outcomes : TaskPutResponse(r, o)
    \/ \E id \in PageIds : \E t \in Times : CalendarTabDrop(id, t)

SpecDash == InitDash /\ [][NextDash]_vars

\* =================================================================== claims
\* The last step ran openEditor.
Opened == lastOp \in {"select", "eventClick"}
OpenedNew == lastOp = "select"
OpenedExisting == lastOp = "eventClick"
\* openEditor ran on an existing event that is assigned to the viewer.
AssignedToViewer ==
    /\ currentEventId \in DOMAIN events
    /\ events[currentEventId].assignee_id = currentUserId
AllReadOnly == \A f \in Fields : dis[f]
AllEditable == \A f \in Fields : ~dis[f]

\* C1: for every role outside {admin, manager, member}, after openEditor (new
\* or existing event) every field is read-only, the save action is hidden and
\* the delete action is hidden.
C1_FailClosed ==
    (Opened /\ currentUserRole \notin KnownRoles)
        => (AllReadOnly /\ saveBtn = "none" /\ deleteBtn = "none")

\* C2: when a member saves a new-event panel, the payload savePage sends has
\* assignee_id equal to the member's id, whatever the assignee widget holds,
\* and status todo unless the member changed the status.
C2_MemberCreatePayload ==
    (lastOp = "savePage:fetch" /\ currentUserRole = "member"
        /\ ~TruthyId(currentEventId))
        => /\ saveRequest \in BagToSet(inflight)
           /\ saveRequest.payload.assignee_id = currentUserId
           /\ ("status" \notin edited => saveRequest.payload.status = "todo")

\* C3: a member who opens an existing event that is not assigned to them
\* finds every field read-only (status included), save hidden, delete hidden.
C3_MemberNotAssigned ==
    (OpenedExisting /\ currentUserRole = "member" /\ ~AssignedToViewer)
        => (AllReadOnly /\ saveBtn = "none" /\ deleteBtn = "none")

\* C4: a member who opens an existing event assigned to them can edit status
\* and nothing else; save is visible and delete is hidden.
C4_MemberAssigned ==
    (OpenedExisting /\ currentUserRole = "member" /\ AssignedToViewer)
        => /\ \A f \in Fields : dis[f] <=> f # "status"
           /\ saveBtn = "block"
           /\ deleteBtn = "none"

C4_Witness ==
    /\ OpenedExisting /\ currentUserRole = "member" /\ AssignedToViewer
    /\ ~dis.status /\ dis.title

\* C5: a member who opens a new-event panel finds every field editable
\* except assignee, which holds the member's own id and is locked, whatever
\* panel was opened before.
C5_MemberNew ==
    (OpenedNew /\ currentUserRole = "member")
        => /\ \A f \in Fields : dis[f] <=> f = "assignee"
           /\ w.assignee = currentUserId

\* C6: for admin and for manager openEditor makes all fields editable and save
\* visible in new and in existing mode, and delete visible whenever the panel
\* is opened on an existing event.
C6_AdminManagerFullAccess ==
    (Opened /\ currentUserRole \in {"admin", "manager"})
        => /\ AllEditable
           /\ saveBtn = "block"
           /\ (OpenedExisting => deleteBtn = "inline-block")

C6_Witness ==
    /\ OpenedExisting /\ currentUserRole = "manager"
    /\ AllEditable /\ deleteBtn = "inline-block"

\* C7 as stated: for admin, save and delete are both visible when the panel is
\* opened for a new event as well as for an existing event.
C7_AdminSaveAndDeleteAlways ==
    (Opened /\ currentUserRole = "admin")
        => (saveBtn = "block" /\ deleteBtn = "inline-block")

\* C7 amended: for admin, save is visible when the panel is opened for a new
\* or an existing event; delete is visible when it is opened for an existing
\* event and hidden when it is opened for a new event.
C7_AdminSaveAlwaysDeleteExisting ==
    (Opened /\ currentUserRole = "admin")
        => /\ saveBtn = "block"
           /\ (deleteBtn = "inline-block" <=> OpenedExisting)
           /\ (deleteBtn = "none" <=> OpenedNew)

C7_Witness ==
    /\ OpenedNew /\ currentUserRole = "admin"
    /\ saveBtn = "block" /\ deleteBtn = "none"

\* C8: a save attempt with an empty title issues no request and leaves the
\* panel state unchanged: the panel stays open on the same event or the same
\* pending start/end, and the calendar event set is untouched.
C8_EmptyTitleSave ==
    [][(lastOp' \in {"savePage:noTitle", "savePage:throw", "savePage:fetch"}
          /\ gesturesLeft' = gesturesLeft - 1 /\ w.title = "")
        => /\ inflight' = inflight
           /\ overlayOpen /\ overlayOpen'
           /\ currentEventId' = currentEventId
           /\ tempDates' = tempDates
           /\ w' = w /\ dis' = dis
           /\ events' = events
           /\ pages' = pages
           /\ closeTimers' = closeTimers]_vars

C8_Witness ==
    /\ lastOp = "savePage:noTitle" /\ alert = "Title Required"
    /\ overlayOpen /\ w.title = ""

\* C9: when the server rejects the update sent for a drag or resize, the event
\* ends at its pre-gesture displayed start/end, not at the attempted new time.
C9_RejectedDragRollsBack ==
    [][\A r \in BagToSet(inflight) :
         (r.origin = "updateEventDate" /\ inflight' = Receive(r)
            /\ lastOp' = "updateEventDate:rejected" /\ r.id \in DOMAIN events')
         => (events'[r.id].start = r.pre.start /\ events'[r.id].end = r.pre.end)]_vars

\* C10: when the update sent for a drag or resize fails in transport, the
\* dragged event is reverted to its pre-gesture position and an alert is shown.
C10_FailedDragRollsBackAndAlerts ==
    [][\A r \in BagToSet(inflight) :
         (r.origin = "updateEventDate" /\ inflight' = Receive(r)
            /\ lastOp' = "updateEventDate:failed")
         => /\ alert' # ""
            /\ r.id \in DOMAIN events' =>
                 (events'[r.id].start = r.pre.start /\ events'[r.id].end = r.pre.end)]_vars

\* C11: the panel goes from open to closed only through the close gesture,
\* the close timer (which only a successful save response sets) or a
\* successful delete response; an empty-title save, a rejected or failed
\* save, an unconfirmed delete, a rejected or failed delete and every drag or
\* resize outcome leave the panel open.
C11_ClosesOnlyBy ==
    [][/\ (overlayOpen /\ ~overlayOpen')
            => lastOp' \in {"closeEditor", "timer:closeEditor", "deletePage:ok"}
       /\ (closeTimers' > closeTimers) => lastOp' = "savePage:ok"
       /\ (/\ overlayOpen
           /\ inflight' # inflight \/ gesturesLeft' # gesturesLeft
           /\ lastOp' \in {"savePage:noTitle", "savePage:rejected", "savePage:failed",
                           "deletePage:declined", "deletePage:noEvent",
                           "deletePage:rejected", "deletePage:failed",
                           "eventDrop", "eventResize", "updateEventDate:ok",
                           "updateEventDate:rejected", "updateEventDate:failed"})
            => overlayOpen']_vars

C11_Witness ==
    /\ lastOp \in {"savePage:rejected", "deletePage:rejected", "deletePage:failed"}
    /\ overlayOpen

\* C12: a successful save response issues the refetch of the calendar events
\* and shows the save indicator, and the panel then closes by the timer alone,
\* with no gesture of the user needed.
C12_SaveSuccessCloses ==
    /\ [](lastOp = "savePage:ok"
            => /\ FeedRequest \in BagToSet(inflight)
               /\ saveStatusShown
               /\ closeTimers > 0)
    /\ ((lastOp = "savePage:ok") ~> ~overlayOpen)

C12_Witness ==
    /\ lastOp = "timer:closeEditor"
    /\ ~overlayOpen
    /\ saveStatusShown

\* C13: deletePage sends a DELETE only from a panel on an existing event and
\* after the user confirmed, and the DELETE is for that event; called with no
\* event id or with the confirmation declined it sends nothing and leaves the
\* panel, the calendar events and the server's pages as they are.
C13_DeleteOnlyConfirmed ==
    [][/\ (/\ gesturesLeft' = gesturesLeft - 1
           /\ lastOp' \in {"deletePage:noEvent", "deletePage:declined"})
            => /\ inflight' = inflight
               /\ UNCHANGED <<overlayOpen, currentEventId, panelEvent, tempDates, w, dis,
                              saveBtn, deleteBtn, events, pages>>
       /\ \A r \in BagToSet(inflight') :
            (r.method = "DELETE" /\ CopiesIn(r, inflight') > CopiesIn(r, inflight))
            => /\ overlayOpen
               /\ TruthyId(currentEventId)
               /\ r.id = currentEventId
               /\ lastOp' = "deletePage:confirmed"]_vars

C13_Witness ==
    /\ lastOp = "deletePage:declined"
    /\ overlayOpen
    /\ TruthyId(currentEventId)
    /\ \A r \in BagToSet(inflight) : r.method # "DELETE"

\* C14: when the DELETE for page p succeeds, the event removed from the
\* calendar is the event of page p, no refetch is issued and the panel closes,
\* also when another event was clicked while the DELETE was in flight.
C14_DeleteRemovesRequestedEvent ==
    [][\A r \in BagToSet(inflight) :
         (/\ r.origin = "deletePage"
          /\ inflight' = Receive(r)
          /\ lastOp' \in {"deletePage:ok", "deletePage:throw"})
         => /\ events' = [i \in DOMAIN events \ {r.id} |-> events[i]]
            /\ ~overlayOpen']_vars

C16_ManagerWithoutTeam ==
    (/\ lastOp \in {"initDashboard:done", "initDashboard:catch"}
     /\ revision \in {"rbac", "rbac0"}
     /\ currentUserRole = "manager"
     /\ MetricsHasError
     /\ {"stats", "memberChart"} \subseteq domIds)
    => /\ \A id \in TeamChartIds : charts[id].renders = 0
       /\ counters
       /\ charts["memberChart"].renders > 0
       /\ lastOp = "initDashboard:done"

\* C17: over every sequence of initDashboard runs, each chart id has its
\* widget created at most once, and every other render of the id is an
\* in-place update of that widget.
C17_ChartsCreatedOnce ==
    \A id \in ChartIds :
        /\ charts[id].created <= 1
        /\ charts[id].renders = charts[id].created + charts[id].updated

\* C18: the update savePage sends for an existing event carries the start and
\* end the calendar event has at the moment of the save, so that the times of
\* a drag or resize made since the panel was opened are the ones sent.
C18_SaveSendsLiveDates ==
    [][(/\ lastOp' = "savePage:fetch"
        /\ gesturesLeft' = gesturesLeft - 1
        /\ panelEvent # Null)
       => \E r \in BagToSet(inflight') :
            /\ inflight' = Send(r)
            /\ r.origin = "savePage"
            /\ r.id = panelEvent
            /\ r.payload.start_time = events[panelEvent].start
            /\ r.payload.end_time = events[panelEvent].end]_vars

C18_Witness ==
    /\ lastOp = "savePage:fetch"
    /\ panelEvent \in DOMAIN events \cap DOMAIN pages
    /\ events[panelEvent].start = 1
    /\ pages[panelEvent].start_time = 1
    /\ \E r \in BagToSet(inflight) :
         /\ r.origin = "savePage" /\ r.method = "PUT" /\ r.id = panelEvent
         /\ r.payload.start_time = 1

C20_DragSendsDeliveredFields ==
    [][\A id \in DOMAIN events :
         (/\ lastOp' \in {"eventDrop", "eventResize"}
          /\ gesturesLeft' = gesturesLeft - 1
          /\ events'[id] # events[id])
         => \E r \in BagToSet(inflight') :
              /\ inflight' = Send(r)
              /\ r.method = "PUT" /\ r.id = id
              /\ r.payload.title = events[id].title
              /\ r.payload.content = events[id].content
              /\ r.payload.category = events[id].category
              /\ r.payload.status = events[id].status
              /\ r.payload.assignee_id = events[id].assignee_id
              /\ (id \in DOMAIN pages
                    /\ events[id] = eventDataTransform(id, pages[id]))
                  => r.payload.priority = pages[id].priority]_vars

\* The policy openEditor applies when it is the first open of the session
\* (every widget enabled before), as a function of the role, of new or
\* existing, and of the assignment to the viewer.
FirstOpenPolicy(rev, role, isExisting, isAssignedToMe) ==
    LET isMember == role = "member"
    IN IF rev = "rbac"
       THEN IF isExisting
            THEN [dis |-> existingDisabledRbac(isMember, isAssignedToMe),
                  saveBtn |-> existingSaveBtnRbac(isMember, isAssignedToMe),
                  deleteBtn |-> existingDeleteBtnRbac(isMember)]
            ELSE [dis |-> newDisabledRbac(isMember), saveBtn |-> "block",
                  deleteBtn |-> "none"]
       ELSE [dis |-> IF isMember /\ isExisting
                     THEN [f \in Fields |-> f # "status"] ELSE AllEnabled,
             saveBtn |-> "block",
             deleteBtn |-> IF isExisting /\ role \in {"admin", "manager"}
                           THEN "inline-block" ELSE "none"]

\* C21: after openEditor returns, the editability of each field and the
\* visibility of save and delete depend on the role, on new or existing and
\* on the assignment to the viewer only: they are what the first open of a
\* session gives, whatever panels were opened before.
C21_PolicyRecomputed ==
    Opened
    => LET p == FirstOpenPolicy(revision, currentUserRole, OpenedExisting,
                                OpenedExisting /\ AssignedToViewer)
       IN /\ dis = p.dis
          /\ saveBtn = p.saveBtn
          /\ deleteBtn = p.deleteBtn

\* savePage reaches its fetch: the title is set and the event the panel was
\* opened on is still on the calendar.
SaveWouldFetch ==
    /\ overlayOpen /\ saveBtn = "block"
    /\ ~titleMissing(w.title)
    /\ ~(TruthyId(currentEventId) /\ currentEventId \notin DOMAIN events)

SaveInFlight == \E r \in BagToSet(inflight) : r.origin = "savePage"

\* C22: while the request of an earlier save is still unanswered, a second
\* click on save is not prevented: it issues its own request, so that two
\* save requests are in flight together.
C22_SecondSaveIssued ==
    (SaveWouldFetch /\ SaveInFlight /\ CanGesture /\ CanSend)
    => ENABLED (/\ SaveClick
                /\ lastOp' = "savePage:fetch"
                /\ BagCardinality(inflight') = BagCardinality(inflight) + 1)

C22_Witness ==
    /\ lastOp = "savePage:fetch"
    /\ BagCardinality(inflight) = 2
    /\ \A r \in BagToSet(inflight) : r.origin = "savePage"

\* C23: every success response to a DELETE of page p, received while the
\* panel still designates p, leaves p's event absent from the calendar and
\* the panel closed, and shows no error; this includes the second success
\* response when delete was confirmed twice before the first response.
C23_DeleteSuccessIdempotent ==
    [][\A r \in BagToSet(inflight) :
          (/\ r.origin = "deletePage"
           /\ inflight' = Receive(r)
           /\ lastOp' \in {"deletePage:ok", "deletePage:throw"}
           /\ currentEventId = r.id)
          => (/\ r.id \notin DOMAIN events'
              /\ ~overlayOpen'
              /\ alert' = "")]_vars

\* The fields of a page record that updateTaskStatus carries over.
CarriedFields ==
    {"title", "content", "start_time", "end_time", "category", "priority",
     "assignee_id"}

MetricsInFlight(bag) == CopiesIn(MetricsRequest, bag)

\* C24: the PUT updateTaskStatus issues after its GET carries title, content,
\* start_time, end_time, category, priority and assignee_id equal to those of
\* the record the GET returned and status equal to the requested status; and
\* a step of updateTaskStatus requests the dashboard metrics again exactly
\* when it is the receipt of a success response to that PUT.
C24_StatusUpdateCarriesRecord ==
    [][/\ \A r \in BagToSet(inflight) :
             (/\ r.origin = "updateTaskStatus:get"
              /\ lastOp' = "updateTaskStatus:put"
              /\ CopiesIn(r, inflight') < CopiesIn(r, inflight))
             => \E q \in BagToSet(inflight') :
                   /\ CopiesIn(q, inflight') > CopiesIn(q, inflight)
                   /\ q.origin = "updateTaskStatus:put"
                   /\ q.method = "PUT"
                   /\ q.id = r.id
                   /\ \A f \in CarriedFields : q.payload[f] = pages[r.id][f]
                   /\ q.payload.status = r.payload.status
       /\ lastOp' \in {"updateTaskStatus", "updateTaskStatus:put",
                       "updateTaskStatus:putNoRecord", "updateTaskStatus:catch",
                       "updateTaskStatus:rejected", "updateTaskStatus:ok"}
          => ((MetricsInFlight(inflight') > MetricsInFlight(inflight))
              <=> lastOp' = "updateTaskStatus:ok")]_vars

C24_Witness ==
    /\ lastOp = "updateTaskStatus:ok"
    /\ MetricsInFlight(inflight) > 0
    /\ \E i \in DOMAIN pages :
          /\ pages[i].status = "done"
          /\ pages[i].assignee_id = InitialPage(i).assignee_id
          /\ pages[i].assignee_id # Null

\* C25: once loadUsersForDropdown has filled the assignee choices, a member
\* is offered no user but themselves, a manager with a team id the users of
\* that team only, and an admin every user; the unassigned choice is among
\* the values of the field in each case.
C25_AssigneeChoicesByRole ==
    assigneeOptions # {}
    => /\ currentUserRole = "member" => assigneeOptions = {currentUserId}
       /\ (currentUserRole = "manager" /\ TruthyNum(currentTeamId))
          => assigneeOptions = {u \in Users : TeamOf(u) = currentTeamId}
       /\ currentUserRole = "admin" => assigneeOptions = Users
       /\ Null \in FieldValues("assignee")

\* C26: the delayed close armed by a successful save closes the panel session
\* that issued the save only: a panel that was opened again since, and on
\* which nothing else has happened, is still open after the timer has run.
C26_TimerClosesItsOwnPanel ==
    [][(Opened /\ overlayOpen /\ lastOp' = "timer:closeEditor")
       => overlayOpen']_vars

\* The requests a step adds to the requests in flight.
Issued(before, after) ==
    {r \in BagToSet(after) : CopiesIn(r, after) > CopiesIn(r, before)}

\* C27: savePage never sends a position that a drag or resize has asked for
\* and that the server has not confirmed: while the update request of a drag
\* or resize of the opened event is unanswered, the start and end a save
\* sends are not the ones that request asks for.
C27_SaveSendsConfirmedPosition ==
    [][\A q \in BagToSet(inflight) :
          (/\ q.origin = "updateEventDate"
           /\ TruthyId(currentEventId)
           /\ q.id = currentEventId
           /\ lastOp' = "savePage:fetch")
          => \A r \in Issued(inflight, inflight') :
                r.origin = "savePage"
                => <<r.payload.start_time, r.payload.end_time>>
                   # <<q.payload.start_time, q.payload.end_time>>]_vars

\* C28: one panel session opened for a new event creates at most one page:
\* once a create of the session has succeeded, a further save in the same
\* session, before the delayed close, issues no other POST.
C28_OneCreatePerPanel ==
    [][(/\ panelCreated
        /\ overlayOpen
        /\ panelEvent = Null
        /\ lastOp' = "savePage:fetch")
       => \A r \in Issued(inflight, inflight') :
             r.origin = "savePage" => r.method # "POST"]_vars

\* C29: a save of a panel opened on an existing event, with no field edited
\* since, sends the attributes of that event: title, content, category,
\* priority, status, start, end, and the assignee, whether or not the
\* assignee is among the users offered and whether or not the user list has
\* arrived.
C29_UneditedSavePreserves ==
    [][(/\ lastOp' = "savePage:fetch"
        /\ TruthyId(currentEventId)
        /\ panelEvent = currentEventId
        /\ currentEventId \in DOMAIN events
        /\ edited = {})
       => \A r \in Issued(inflight, inflight') :
             r.origin = "savePage"
             => LET e == events[currentEventId]
                IN /\ r.payload.title = e.title
                   /\ r.payload.content = e.content
                   /\ r.payload.category = e.category
                   /\ r.payload.priority = e.priority
                   /\ r.payload.status = e.status
                   /\ r.payload.start_time = e.start
                   /\ r.payload.end_time = e.end
                   /\ r.payload.assignee_id = e.assignee_id]_vars

\* C30: when the PUT of updateTaskStatus, built from a fetched record, is
\* accepted, no field of the page other than status changes: an update of
\* the page that was applied between the GET and the PUT of updateTaskStatus
\* is not reverted.
C30_StatusUpdateKeepsOtherFields ==
    [][\A r \in BagToSet(inflight) :
          (/\ r.origin = "updateTaskStatus:put"
           /\ r.payload.title # NullStr
           /\ CopiesIn(r, inflight') < CopiesIn(r, inflight)
           /\ lastOp' = "updateTaskStatus:ok"
           /\ r.id \in DOMAIN pages)
          => \A f \in CarriedFields : pages'[r.id][f] = pages[r.id][f]]_vars

====
